---- MODULE Spec2Model ----
(***************************************************************************)
(* Model of dups_scanner (src/main.py): FileScanner, FileHasher, Database  *)
(* and Controller.run, with the filesystem they act on.                    *)
(*                                                                         *)
(* A path is the sequence of its components below "/" (os.path.join is     *)
(* Append).  A filesystem is the set of its directories and the set of its *)
(* non-directory entries; the top directory <<>> always exists.            *)
(***************************************************************************)
EXTENDS Integers, Sequences, FiniteSets, TLC

VARIABLES
    fs,        \* the filesystem: [dirs, files]
    call,      \* FileScanner harness: the last scan call and what it returned
    table,     \* Database: the rows of table `files`
    lastOp,    \* Database harness: the last Database call and what it returned
    firstSeen, \* Database harness: per path, the first record ever passed to insert
    config,    \* Controller: source_dir, target_dir, hashing_mode, delete
    pc,        \* Controller.run: where the run stands
    exitCode,  \* the exit status of the process, -1 while it runs
    source_files,          \* run: result of the scan of the source root
    target_files,          \* run: result of the scan of the target root
    hashIdx,               \* _hash_files: position of its for loop in file_list
    hashed_source_files,   \* run: records of the source files
    hashed_target_files,   \* run: records of the target files
    duplicates,            \* run: the list find_dupes returned
    pairIdx,               \* run: position of the resolution loop in duplicates
    content,   \* the bytes of the files read so far
    scanFault, \* history: the exception that ended the scanning stage
    hashLog,   \* history: every hasher_func call and how it ended
    dbCalls,   \* history: how many insert and find_dupes calls the run made
    resolved   \* history: what the resolution loop did for each pair

(***************************************************************************)
(* Bounds of the filesystem universe.                                      *)
(***************************************************************************)
NameOrder == <<"a", "b">>        \* the entry names, in os.listdir order
MaxDepth == 2                    \* deepest entry below "/"

Names == {NameOrder[i] : i \in 1..Len(NameOrder)}

EmptyTree == [dirs |-> {}, files |-> {}]

Graft(s, t) == [dirs |-> s.dirs \cup t.dirs, files |-> s.files \cup t.files]

RECURSIVE SubTrees(_, _), EntryChoices(_, _, _)
\* Every tree that can hang below directory p when d more levels are allowed.
SubTrees(p, d) ==
    IF d = 0 THEN {EmptyTree} ELSE EntryChoices(p, d, 1)

EntryChoices(p, d, i) ==
    IF i > Len(NameOrder) THEN {EmptyTree}
    ELSE LET q == Append(p, NameOrder[i])
             here == {EmptyTree}
                       \cup {[dirs |-> {}, files |-> {q}]}
                       \cup {[dirs |-> {q} \cup s.dirs, files |-> s.files] :
                               s \in SubTrees(q, d - 1)}
         IN  {Graft(h, r) : h \in here, r \in EntryChoices(p, d, i + 1)}

Trees == SubTrees(<<>>, MaxDepth)

RECURSIVE PathsUpTo(_)
PathsUpTo(d) ==
    IF d = 0 THEN {<<>>}
    ELSE PathsUpTo(d - 1)
           \cup {Append(p, n) : p \in {q \in PathsUpTo(d - 1) : Len(q) = d - 1}, n \in Names}

Paths == PathsUpTo(MaxDepth)

(***************************************************************************)
(* The os / os.path calls the program makes.                               *)
(***************************************************************************)
exists(f, path) == path = <<>> \/ path \in f.dirs \/ path \in f.files

isdir(f, path) == path = <<>> \/ path \in f.dirs

\* os.listdir: the names of the entries of a directory, in NameOrder order.
listdir(f, path) ==
    SelectSeq(NameOrder, LAMBDA n : exists(f, Append(path, n)))

(***************************************************************************)
(* FileScanner.scan.  A call returns the list or raises; `gone` holds the  *)
(* directories that another process removes after the parent's isdir saw   *)
(* them and before the scan of them tests os.path.exists.                  *)
(***************************************************************************)
Returned(files) == [raised |-> "none", files |-> files, at |-> <<>>]
Raised(e, path) == [raised |-> e, files |-> <<>>, at |-> path]

RECURSIVE scan(_, _, _, _), scanEntries(_, _, _, _, _)
\* scanEntries with the test of `recursive` left out: every directory is expanded
scanEntriesAlwaysDescends(f, gone, path, recursive, entries) ==
    IF entries = <<>> THEN Returned(<<>>)
    ELSE LET full_path == Append(path, Head(entries))
             first == IF isdir(f, full_path)
                      THEN scan(f, gone, full_path, TRUE)
                      ELSE Returned(<<full_path>>)
         IN  IF first.raised # "none" THEN first
             ELSE LET rest == scanEntries(f, gone, path, recursive, Tail(entries))
                  IN  IF rest.raised # "none" THEN rest
                      ELSE Returned(first.files \o rest.files)

scan(f, gone, path, recursive) ==
    IF ~exists(f, path) \/ path \in gone THEN Raised("FileNotFoundError", path)
    ELSE IF ~isdir(f, path) THEN Raised("NotADirectoryError", path)
    ELSE scanEntries(f, gone, path, recursive, listdir(f, path))

\* the for loop of scan over the names still to visit
scanEntries(f, gone, path, recursive, entries) ==
    IF entries = <<>> THEN Returned(<<>>)
    ELSE LET full_path == Append(path, Head(entries))
             first == IF isdir(f, full_path)
                      THEN IF recursive THEN scan(f, gone, full_path, TRUE)
                           ELSE Returned(<<>>)
                      ELSE Returned(<<full_path>>)
         IN  IF first.raised # "none" THEN first
             ELSE LET rest == scanEntries(f, gone, path, recursive, Tail(entries))
                  IN  IF rest.raised # "none" THEN rest
                      ELSE Returned(first.files \o rest.files)

(***************************************************************************)
(* Database.  A FileRecord is the tuple (path, hash, size, source_flag)    *)
(* that _hash_files builds; a row of `files` is what sqlite stores for it: *)
(* the bool bound to the INTEGER column `source` becomes 1 or 0.           *)
(***************************************************************************)
Row(rec) ==
    [file_path |-> rec[1], hash |-> rec[2], file_size |-> rec[3],
     source |-> IF rec[4] THEN 1 ELSE 0]

\* INSERT OR REPLACE in place of INSERT OR IGNORE: the last writer wins
insertRowReplace(rows, rec) ==
    {r \in rows : r.file_path # rec[1]} \cup {Row(rec)}

\* INSERT OR IGNORE of one row: file_path is the PRIMARY KEY
insertRow(rows, rec) ==
    IF \E r \in rows : r.file_path = rec[1] THEN rows
    ELSE rows \cup {Row(rec)}

RECURSIVE insert(_, _)
\* Database.insert: executemany runs the statement once per element, in order
insert(rows, files) ==
    IF files = <<>> THEN rows
    ELSE insert(insertRow(rows, Head(files)), Tail(files))

\* the join with `AND s.file_size = t.file_size` left out
joinedOnHashOnly(rows) ==
    {st \in rows \X rows :
        /\ st[1].hash = st[2].hash
        /\ st[1].source = 1
        /\ st[2].source = 0}

\* the rows (s, t) the self-join of find_dupes selects
joined(rows) ==
    {st \in rows \X rows :
        /\ st[1].hash = st[2].hash
        /\ st[1].file_size = st[2].file_size
        /\ st[1].source = 1
        /\ st[2].source = 0}

Orderings(S) ==
    {o \in [1..Cardinality(S) -> S] : \A i, j \in DOMAIN o : o[i] = o[j] => i = j}

\* Database.find_dupes: one (source_path, target_path) per selected row pair;
\* SQL leaves the order of the result open.
find_dupes(rows) ==
    {[i \in DOMAIN o |-> <<o[i][1].file_path, o[i][2].file_path>>] :
        o \in Orderings(joined(rows))}

\* Database.count
count(rows) == Cardinality(rows)

(***************************************************************************)
(* FileHasher.  A hashlib object is modelled by the bytes it was fed, a    *)
(* digest by the algorithm and those bytes: equal input gives equal        *)
(* digests and the model has no collisions.  A read is what open() and     *)
(* f.read() give: the bytes of the file, or an OSError.                    *)
(***************************************************************************)
ChunkSize == 1        \* hashing_chunk_size / chunk_size, 1 MiB scaled to one byte

new(algorithm) == [algorithm |-> algorithm, fed |-> <<>>]
update(hasher, data) == [hasher EXCEPT !.fed = @ \o data]
hexdigest(hasher) == <<hasher.algorithm, hasher.fed>>

Min(x, y) == IF x < y THEN x ELSE y

\* f.read(n) at offset `pos` of a file holding `bytes`
read(bytes, pos, n) == SubSeq(bytes, pos + 1, Min(pos + n, Len(bytes)))

ReadOk(bytes) == [ok |-> TRUE, bytes |-> bytes]
ReadError == [ok |-> FALSE, bytes |-> <<>>]

HashValue(v) == [raised |-> FALSE, none |-> FALSE, value |-> v]
HashNone == [raised |-> FALSE, none |-> TRUE, value |-> <<>>]
HashRaised == [raised |-> TRUE, none |-> FALSE, value |-> <<>>]

\* quick_hash with f.read() in place of f.read(hashing_chunk_size)
quick_hashWholeFile(rd) ==
    IF ~rd.ok THEN HashNone
    ELSE HashValue(hexdigest(update(new("md5"), rd.bytes)))

\* FileHasher.quick_hash: the digest of the first chunk, None when the read fails
quick_hash(rd) ==
    IF ~rd.ok THEN HashNone
    ELSE HashValue(hexdigest(update(new("md5"), read(rd.bytes, 0, ChunkSize))))

RECURSIVE feedChunks(_, _, _)
\* the while loop of full_hash: update with each chunk until read returns b""
feedChunks(hasher, bytes, pos) ==
    LET chunk == read(bytes, pos, ChunkSize)
    IN  IF chunk = <<>> THEN hasher
        ELSE feedChunks(update(hasher, chunk), bytes, pos + Len(chunk))

\* FileHasher.full_hash: the digest of the whole file; a failed read propagates
full_hash(rd) ==
    IF ~rd.ok THEN HashRaised
    ELSE HashValue(hexdigest(feedChunks(new("md5"), rd.bytes, 0)))

(***************************************************************************)
(* Controller.run as a state machine.                                      *)
(***************************************************************************)
EXIT_UNEXPECTED == 1
EXIT_FILE_ERROR == 2
EXIT_OK == 0             \* the interpreter's status when run() returns
EXIT_TRACEBACK == 1      \* the interpreter's status for an uncaught exception

MaxFiles == 3            \* most files in a filesystem a run starts on

\* what the files hold: all longer than ChunkSize and alike in the first chunk;
\* two of one size that differ after it, and a longer one
Contents == {<<0, 0>>, <<0, 1>>, <<0, 0, 1>>}

\* what input() may return: an affirmative answer that str.lower has to fold, and
\* a negative one
Answers == {"Y", "n"}

\* str.lower on the answers
lower(str) == IF str = "Y" THEN "y" ELSE str

\* a run is given "/" or one of its entries as a root, and starts on a tree of two
\* levels (the entries of "/" and of its subdirectories) with at most MaxFiles files
Roots == {<<>>} \cup {<<n>> : n \in Names}
RunTrees ==
    {t \in SubTrees(<<>>, 2) :
        /\ \A d \in t.dirs : Len(d) = 1
        /\ Cardinality(t.files) <= MaxFiles}

NoFault == Returned(<<>>)

\* the harness variables before any call
NoCall == [root |-> <<>>, recursive |-> TRUE, made |-> FALSE, result |-> Returned(<<>>)]
NoOp == [op |-> "none"]

runVars ==
    <<config, pc, exitCode, source_files, target_files, hashIdx,
      hashed_source_files, hashed_target_files, duplicates, pairIdx,
      content, scanFault, hashLog, dbCalls, resolved>>

vars == <<fs, call, table, lastOp, firstSeen, runVars>>

\* the values of the run's variables before anything ran
RunFresh ==
    /\ exitCode = -1
    /\ source_files = <<>>
    /\ target_files = <<>>
    /\ hashIdx = 1
    /\ hashed_source_files = <<>>
    /\ hashed_target_files = <<>>
    /\ duplicates = <<>>
    /\ pairIdx = 1
    /\ content = <<>>
    /\ scanFault = NoFault
    /\ hashLog = <<>>
    /\ dbCalls = [insert |-> 0, find_dupes |-> 0]
    /\ resolved = <<>>

NoRun ==
    /\ config = [source |-> <<>>, target |-> <<>>, hashing_mode |-> "quick",
                 delete |-> FALSE]
    /\ pc = "idle"
    /\ RunFresh

Init ==
    /\ fs \in RunTrees
    /\ call = NoCall
    /\ table = {}
    /\ lastOp = NoOp
    /\ firstSeen = {}
    /\ config \in [source : Roots, target : Roots,
                   hashing_mode : {"quick", "full"}, delete : BOOLEAN]
    /\ pc = "scan"
    /\ RunFresh

\* sys.exit(code)
Exit(code) ==
    /\ pc' = "exited"
    /\ exitCode' = code

\* run returns and the interpreter ends
Return ==
    /\ pc' = "done"
    /\ exitCode' = EXIT_OK

\* an exception no handler of run catches: traceback, status 1
Crash ==
    /\ pc' = "crashed"
    /\ exitCode' = EXIT_TRACEBACK

\* run with `except Exception` written before `except FileNotFoundError`
ScanExitCodeFirstHandlerCatchesAll(raised) == EXIT_UNEXPECTED

\* run with the two exit codes of the handlers exchanged
ScanExitCodeExchanged(raised) ==
    IF raised = "FileNotFoundError" THEN EXIT_UNEXPECTED ELSE EXIT_FILE_ERROR

\* run, lines 157-162: the handler that catches what a scan raised
ScanExitCode(raised) ==
    IF raised = "FileNotFoundError" THEN EXIT_FILE_ERROR ELSE EXIT_UNEXPECTED

\* Where control stands once _hash_files is at position i of the list of `stage`:
\* a for loop that is over returns, and run goes on to the next call (lines 167-171).
HashStage(stage, i, sources, targets) ==
    IF stage = "hash_source" /\ i <= Len(sources) THEN "hash_source"
    ELSE IF stage = "hash_source" /\ targets # <<>> THEN "hash_target"
    ELSE IF stage = "hash_target" /\ i <= Len(targets) THEN "hash_target"
    ELSE "catalog"

\* run, lines 153-162: both scans inside one try
ScanRoots ==
    /\ pc = "scan"
    /\ \E gone \in {{}} \cup {{d} : d \in fs.dirs} :
          LET s == scan(fs, gone, config.source, TRUE)
              t == scan(fs, gone, config.target, TRUE)
              failed == IF s.raised # "none" THEN s ELSE t
          IN  IF failed.raised # "none"
              THEN /\ Exit(ScanExitCode(failed.raised))
                   /\ scanFault' = failed
                   /\ UNCHANGED <<source_files, target_files>>
              ELSE /\ source_files' = s.files
                   /\ target_files' = t.files
                   /\ pc' = HashStage("hash_source", 1, s.files, t.files)
                   /\ UNCHANGED <<exitCode, scanFault>>
    /\ UNCHANGED <<fs, call, table, lastOp, firstSeen, config, hashIdx,
                   hashed_source_files, hashed_target_files, duplicates, pairIdx,
                   content, hashLog, dbCalls, resolved>>

\* hf of run, line 165
hf(rd) == IF config.hashing_mode = "quick" THEN quick_hash(rd) ELSE full_hash(rd)

\* what reading `path` can give: an error, or the bytes the file holds
Reads(path) ==
    {ReadError} \cup {ReadOk(c) : c \in (IF path \in DOMAIN content
                                         THEN {content[path]} ELSE Contents)}

Known(path, rd) ==
    IF rd.ok /\ path \notin DOMAIN content THEN content @@ (path :> rd.bytes)
    ELSE content

\* one round of the for loop of _hash_files on file_list[hashIdx]
HashFile ==
    /\ pc \in {"hash_source", "hash_target"}
    /\ LET file_list == IF pc = "hash_source" THEN source_files ELSE target_files
           source_flag == pc = "hash_source"
       IN  /\ hashIdx <= Len(file_list)
           /\ \E rd \in Reads(file_list[hashIdx]), sized \in BOOLEAN :
                LET path == file_list[hashIdx]
                    hash_val == hf(rd)
                    rec == <<path, hash_val.value, Len(rd.bytes), source_flag>>
                    kept == ~hash_val.raised /\ ~hash_val.none /\ sized
                IN  /\ rd.ok \/ sized
                    /\ hashLog' = Append(hashLog,
                          [path |-> path, source_flag |-> source_flag,
                           outcome |-> IF hash_val.raised THEN "raised"
                                       ELSE IF kept THEN "kept" ELSE "skipped"])
                    /\ content' = IF sized THEN Known(path, rd) ELSE content
                    /\ IF hash_val.raised
                       THEN /\ Crash
                            /\ UNCHANGED <<hashIdx, hashed_source_files,
                                           hashed_target_files>>
                       ELSE /\ pc' = HashStage(pc, hashIdx + 1, source_files,
                                                 target_files)
                            /\ hashIdx' = IF pc' = pc THEN hashIdx + 1 ELSE 1
                            /\ hashed_source_files' =
                                  IF kept /\ source_flag
                                  THEN Append(hashed_source_files, rec)
                                  ELSE hashed_source_files
                            /\ hashed_target_files' =
                                  IF kept /\ ~source_flag
                                  THEN Append(hashed_target_files, rec)
                                  ELSE hashed_target_files
                            /\ UNCHANGED exitCode
    /\ UNCHANGED <<fs, call, table, lastOp, firstSeen, config, source_files,
                   target_files, duplicates, pairIdx, scanFault, dbCalls, resolved>>

\* run, lines 171-183: a fresh in-memory database, source records inserted first
Catalog ==
    /\ pc = "catalog"
    /\ table' = insert(insert({}, hashed_source_files), hashed_target_files)
    /\ dbCalls' = [dbCalls EXCEPT !.insert = @ + 2]
    /\ pc' = "match"
    /\ UNCHANGED <<fs, call, lastOp, firstSeen, config, exitCode, source_files,
                   target_files, hashIdx, hashed_source_files, hashed_target_files,
                   duplicates, pairIdx, content, scanFault, hashLog, resolved>>

\* run, lines 185-191: the query; with no pair to resolve run returns
Match ==
    /\ pc = "match"
    /\ \E result \in find_dupes(table) : duplicates' = result
    /\ dbCalls' = [dbCalls EXCEPT !.find_dupes = @ + 1]
    /\ IF duplicates' = <<>> THEN Return ELSE pc' = "resolve" /\ UNCHANGED exitCode
    /\ UNCHANGED <<fs, call, table, lastOp, firstSeen, config,
                   source_files, target_files, hashIdx, hashed_source_files,
                   hashed_target_files, pairIdx, content, scanFault, hashLog,
                   resolved>>

\* os.remove(path) inside try/except Exception: TRUE when the file was removed
Removals(f, path) == IF path \in f.files THEN BOOLEAN ELSE {FALSE}

\* line 192 with the answer compared as typed
wantsDeleteWithoutLower(delete, answer) == delete \/ answer = "y"

\* line 192: `self.delete or input(...).lower() == "y"`
wantsDelete(delete, answer) == delete \/ lower(answer) = "y"

\* lines 193-196 without the try: a failed os.remove ends the run
afterPairRemoveUncaught(i, n, attempt, removed) ==
    IF attempt /\ ~removed THEN "crashed"
    ELSE IF i = n THEN "done" ELSE "resolve"

\* Where control stands after round i of n of the resolution loop: `except Exception`
\* logs a failed os.remove and the loop goes on; after the last round run returns.
afterPair(i, n, attempt, removed) ==
    IF i = n THEN "done" ELSE "resolve"

\* one round of the resolution loop, lines 191-196
ResolvePair ==
    /\ pc = "resolve"
    /\ pairIdx <= Len(duplicates)
    /\ LET source_path == duplicates[pairIdx][1]
           target_path == duplicates[pairIdx][2]
       IN  \E answer \in Answers, removed \in Removals(fs, target_path) :
              LET prompted == ~config.delete
                  attempt == wantsDelete(config.delete, answer)
              IN  /\ prompted \/ answer = "n"
                  /\ attempt \/ ~removed
                  /\ resolved' = Append(resolved,
                        [source_path |-> source_path, target_path |-> target_path,
                         prompted |-> prompted,
                         answer |-> IF prompted THEN answer ELSE "",
                         attempted |-> attempt, removed |-> removed])
                  /\ fs' = IF removed
                           THEN [fs EXCEPT !.files = @ \ {target_path}]
                           ELSE fs
                  /\ pc' = afterPair(pairIdx, Len(duplicates), attempt, removed)
    /\ exitCode' = IF pc' = "done" THEN EXIT_OK
                   ELSE IF pc' = "crashed" THEN EXIT_TRACEBACK
                   ELSE exitCode
    /\ pairIdx' = pairIdx + 1
    /\ UNCHANGED <<call, table, lastOp, firstSeen, config,
                   source_files, target_files, hashIdx, hashed_source_files,
                   hashed_target_files, duplicates, content, scanFault, hashLog,
                   dbCalls>>

\* input() raises EOFError (stdin closed): nothing in run catches it
PromptFails ==
    /\ pc = "resolve"
    /\ pairIdx <= Len(duplicates)
    /\ ~config.delete
    /\ Crash
    /\ UNCHANGED <<fs, call, table, lastOp, firstSeen, config, source_files,
                   target_files, hashIdx, hashed_source_files, hashed_target_files,
                   duplicates, pairIdx, content, scanFault, hashLog, dbCalls,
                   resolved>>

Next ==
    \/ ScanRoots
    \/ HashFile
    \/ Catalog
    \/ Match
    \/ ResolvePair
    \/ PromptFails

Spec == Init /\ [][Next]_vars

(***************************************************************************)
(* SpecDB: a Database driven by arbitrary insert / find_dupes / count      *)
(* calls.                                                                  *)
(***************************************************************************)
DbPaths == {<<"p1">>, <<"p2">>, <<"p3">>, <<"p4">>}
DbHashes == {"d41d", "9e10"}
DbSizes == {5, 6}
DbRecords == DbPaths \X DbHashes \X DbSizes \X BOOLEAN
\* the lists given to insert: empty, one record, or two records for one path
\* (the lists on which the order inside one executemany matters)
DbBatches == {<<>>} \cup {<<r>> : r \in DbRecords}
               \cup {rq \in {<<r, q>> : r \in DbRecords, q \in DbRecords} :
                        rq[1][1] = rq[2][1]}

RECURSIVE Firsts(_, _)
\* history: the records of `files` that are the first ever given for their path
Firsts(seen, files) ==
    IF files = <<>> THEN seen
    ELSE Firsts(IF \E r \in seen : r[1] = Head(files)[1] THEN seen
                ELSE seen \cup {Head(files)},
                Tail(files))

DbInsert ==
    \E files \in DbBatches :
        /\ table' = insert(table, files)
        /\ firstSeen' = Firsts(firstSeen, files)
        /\ lastOp' = [op |-> "insert",
                      repeat |-> \E i \in DOMAIN files :
                                    \E r \in Firsts(firstSeen, SubSeq(files, 1, i - 1)) :
                                        r[1] = files[i][1] /\ r # files[i],
                      again |-> \E i \in DOMAIN files :
                                    files[i] \in Firsts(firstSeen, SubSeq(files, 1, i - 1))]
        /\ UNCHANGED <<fs, call, runVars>>

DbFindDupes ==
    \E result \in find_dupes(table) :
        /\ lastOp' = [op |-> "find_dupes", result |-> result]
        /\ UNCHANGED <<fs, call, table, firstSeen, runVars>>

DbCount ==
    /\ lastOp' = [op |-> "count", n |-> count(table)]
    /\ UNCHANGED <<fs, call, table, firstSeen, runVars>>

InitDB ==
    /\ fs = EmptyTree
    /\ call = NoCall
    /\ table = {}
    /\ lastOp = NoOp
    /\ firstSeen = {}
    /\ NoRun

NextDB == DbInsert \/ DbFindDupes \/ DbCount

SpecDB == InitDB /\ [][NextDB]_vars

(***************************************************************************)
(* SpecScan: FileScanner.scan called on every tree, root and flag.         *)
(***************************************************************************)
InitScan ==
    /\ fs \in Trees
    /\ call = NoCall
    /\ table = {}
    /\ lastOp = NoOp
    /\ firstSeen = {}
    /\ NoRun

ScanCall ==
    \E root \in Paths, recursive \in BOOLEAN :
        /\ call' = [root |-> root, recursive |-> recursive, made |-> TRUE,
                    result |-> scan(fs, {}, root, recursive)]
        /\ UNCHANGED <<fs, table, lastOp, firstSeen, runVars>>

NextScan == ScanCall

SpecScan == InitScan /\ [][NextScan]_vars

(***************************************************************************)
(* Properties of FileScanner.scan (SpecScan).                              *)
(***************************************************************************)
Range(seq) == {seq[i] : i \in DOMAIN seq}

Occurrences(seq, x) == Cardinality({i \in DOMAIN seq : seq[i] = x})

IsUnder(root, p) == Len(p) > Len(root) /\ SubSeq(p, 1, Len(root)) = root

\* C8: on a tree whose root is an existing directory, scan(root, recursive=False)
\* returns exactly the non-directory entries directly under the root, and
\* scan(root, recursive=True) exactly the non-directory entries at every depth
\* below the root, each once and never a directory.
C8_ScanReturnsExactlyTheFiles ==
    (call.made /\ isdir(fs, call.root)) =>
        LET expected == IF call.recursive
                        THEN {p \in fs.files : IsUnder(call.root, p)}
                        ELSE {p \in fs.files :
                                IsUnder(call.root, p) /\ Len(p) = Len(call.root) + 1}
            got == call.result.files
        IN  /\ call.result.raised = "none"
            /\ Range(got) = expected
            /\ \A p \in expected : Occurrences(got, p) = 1
            /\ \A p \in Range(got) : ~isdir(fs, p)

\* a non-recursive scan of a root that holds files of its own and a subdirectory
\* with files in it
C8_Witness ==
    /\ call.made
    /\ ~call.recursive
    /\ isdir(fs, call.root)
    /\ call.result.files # <<>>
    /\ \E p \in fs.files : IsUnder(call.root, p) /\ Len(p) > Len(call.root) + 1

(***************************************************************************)
(* Properties of Database (SpecDB).                                        *)
(***************************************************************************)
RowOf(rows, path) == CHOOSE r \in rows : r.file_path = path

\* C1: find_dupes returns exactly one (s.path, t.path) for every source-tagged row s
\* and target-tagged row t with equal hash and equal size, nothing else, and never
\* a pair whose two paths carry the same origin tag.
C1_FindDupesIsTheSourceTargetJoin ==
    lastOp.op = "find_dupes" =>
        /\ \A sp \in DbPaths, tp \in DbPaths :
              Occurrences(lastOp.result, <<sp, tp>>) =
                  IF \E s \in table, t \in table :
                        /\ s.file_path = sp /\ t.file_path = tp
                        /\ s.source = 1 /\ t.source = 0
                        /\ s.hash = t.hash /\ s.file_size = t.file_size
                  THEN 1 ELSE 0
        /\ \A i \in DOMAIN lastOp.result :
              /\ lastOp.result[i] \in DbPaths \X DbPaths
              /\ RowOf(table, lastOp.result[i][1]).source
                   # RowOf(table, lastOp.result[i][2]).source

\* one source matching three targets gave three pairs, while the table also holds
\* nothing else to pair
C1_Witness ==
    /\ lastOp.op = "find_dupes"
    /\ Len(lastOp.result) = 3
    /\ \A i \in DOMAIN lastOp.result : lastOp.result[i][1] = lastOp.result[1][1]

\* C4: insert is first-writer-wins per path: the table holds, for every path ever
\* given to insert, the row of the first record given for it and nothing else, so a
\* record whose path is already stored changes neither the row nor count().
C4_InsertFirstWriterWins ==
    /\ table = {Row(r) : r \in firstSeen}
    /\ count(table) = Cardinality({r[1] : r \in firstSeen})
    /\ lastOp.op = "count" => lastOp.n = Cardinality({r[1] : r \in firstSeen})

\* an insert that was given a stored path with other values, and a record that was
\* stored before
C4_Witness ==
    /\ lastOp.op = "insert"
    /\ lastOp.repeat
    /\ lastOp.again
    /\ table # {}

(***************************************************************************)
(* Properties of Controller.run (Spec).                                    *)
(***************************************************************************)
Affirmative == {"y", "Y"}

NothingDone ==
    /\ hashLog = <<>>
    /\ content = <<>>
    /\ hashed_source_files = <<>>
    /\ hashed_target_files = <<>>
    /\ dbCalls = [insert |-> 0, find_dupes |-> 0]
    /\ table = {}
    /\ duplicates = <<>>
    /\ resolved = <<>>

\* C2: a file whose read fails during fingerprinting is skipped, in quick and in
\* full mode: no hasher_func call lets the failure out of _hash_files, so no run
\* ends in the fingerprinting stage.
C2_ReadFailureSkipsTheFile ==
    /\ \A i \in DOMAIN hashLog : hashLog[i].outcome \in {"kept", "skipped"}
    /\ pc = "crashed" => duplicates # <<>>

\* C3: once the scanning stage is over, if the source root does not exist, or the
\* source scan went through and the target root does not exist, the run has exited
\* with EXIT_FILE_ERROR and has fingerprinted nothing, inserted nothing, queried
\* nothing and removed nothing.
C3_MissingRootStopsTheRun ==
    (/\ pc # "scan"
     /\ \/ ~exists(fs, config.source)
        \/ ~exists(fs, config.target) /\ scanFault.at = config.target
        \/ /\ scanFault.raised = "FileNotFoundError"
           /\ scanFault.at \in {config.source, config.target})
    => /\ pc = "exited"
       /\ exitCode = EXIT_FILE_ERROR
       /\ NothingDone

\* the target root is missing while the source root holds files
C3_Witness ==
    /\ pc = "exited"
    /\ isdir(fs, config.source)
    /\ \E p \in fs.files : IsUnder(config.source, p)
    /\ ~exists(fs, config.target)

\* each round of the resolution loop handles the next returned pair; with the
\* auto-delete flag the removal of its target path is attempted without a prompt,
\* without the flag the pair is prompted and the removal attempted exactly when
\* the answer is affirmative
C5_RoundsFollowFlagAndAnswer ==
    \A i \in DOMAIN resolved :
        /\ i <= Len(duplicates)
        /\ <<resolved[i].source_path, resolved[i].target_path>> = duplicates[i]
        /\ config.delete => ~resolved[i].prompted /\ resolved[i].attempted
        /\ ~config.delete =>
              /\ resolved[i].prompted
              /\ resolved[i].attempted <=> resolved[i].answer \in Affirmative
        /\ resolved[i].removed => resolved[i].attempted

\* a step of the run takes no entry out of the filesystem but the target path of
\* the pair it handles, with the flag set or after an affirmative answer
C5_OnlyDecidedTargetsRemoved ==
    /\ fs'.dirs = fs.dirs
    /\ fs'.files \subseteq fs.files
    /\ fs' # fs =>
          /\ pc = "resolve"
          /\ pairIdx \in DOMAIN duplicates
          /\ fs.files \ fs'.files = {duplicates[pairIdx][2]}
          /\ Len(resolved') = pairIdx
          /\ resolved'[pairIdx].removed
          /\ config.delete \/ resolved'[pairIdx].answer \in Affirmative

\* C5: a target path is removed only when the run has the auto-delete flag or
\* the user answered the prompt for that pair affirmatively ("y" in either
\* case); with the flag no prompt is shown, and nothing else is ever removed.
C5_RemovalOnlyOnFlagOrAffirmativeAnswer ==
    [](C5_RoundsFollowFlagAndAnswer) /\ [][C5_OnlyDecidedTargetsRemoved]_vars

\* a run without the flag that removed one target on an affirmative answer and kept
\* another on a negative one
C5_Witness ==
    /\ ~config.delete
    /\ pc = "done"
    /\ \E i, j \in DOMAIN resolved :
          /\ resolved[i].answer = "Y" /\ resolved[i].removed
          /\ resolved[j].answer = "n" /\ ~resolved[j].attempted
          /\ resolved[j].target_path \in fs.files
          /\ resolved[i].target_path \notin fs.files

\* a round whose os.remove fails goes on to the next pair, or returns with 0 when
\* it was the last one
C6_FailedRemovalStep ==
    (/\ pc = "resolve"
     /\ Len(resolved') = Len(resolved) + 1
     /\ resolved'[Len(resolved')].attempted
     /\ ~resolved'[Len(resolved')].removed)
    => /\ pairIdx' = pairIdx + 1
       /\ pc' = IF pairIdx = Len(duplicates) THEN "done" ELSE "resolve"
       /\ exitCode' = IF pairIdx = Len(duplicates) THEN EXIT_OK ELSE exitCode

\* a run that returned has handled every pair, in the order of the list, and
\* exits with 0
C6_Returned ==
    pc = "done" =>
        /\ exitCode = EXIT_OK
        /\ Len(resolved) = Len(duplicates)
        /\ \A i \in DOMAIN resolved :
              <<resolved[i].source_path, resolved[i].target_path>> = duplicates[i]

\* C6: a removal that fails does not stop the resolution: the remaining pairs
\* are still handled, in order, and the run returns with exit code 0.
C6_FailedRemovalDoesNotStopResolution ==
    [][C6_FailedRemovalStep]_vars /\ [](C6_Returned)

\* one target path in two pairs: removed for the first, already gone for the
\* second, and the run returned
C6_Witness ==
    /\ pc = "done"
    /\ exitCode = EXIT_OK
    /\ \E i, j \in DOMAIN resolved :
          /\ i < j
          /\ resolved[i].target_path = resolved[j].target_path
          /\ resolved[i].removed
          /\ resolved[j].attempted /\ ~resolved[j].removed

AlikeUpToChunk(a, b) ==
    /\ Len(a) > ChunkSize
    /\ Len(b) > ChunkSize
    /\ SubSeq(a, 1, ChunkSize) = SubSeq(b, 1, ChunkSize)
    /\ a # b

Queried == dbCalls.find_dupes > 0

\* C7 as first stated: in quick mode a cataloged source file and a cataloged target
\* file, both longer than the chunk, alike in the first chunk and different after
\* it, are reported as a pair.
C7_AlikePrefixesArePaired ==
    (config.hashing_mode = "quick" /\ Queried) =>
        \A s \in table, t \in table :
            (/\ s.source = 1 /\ t.source = 0
             /\ AlikeUpToChunk(content[s.file_path], content[t.file_path]))
            => <<s.file_path, t.file_path>> \in Range(duplicates)

\* C7 amended: in quick mode a cataloged source file and a cataloged target file,
\* both longer than the chunk, alike in the first chunk, different after it and of
\* the same size, are reported as a pair.
C7_AlikePrefixesOfOneSizeArePaired ==
    (config.hashing_mode = "quick" /\ Queried) =>
        \A s \in table, t \in table :
            (/\ s.source = 1 /\ t.source = 0
             /\ AlikeUpToChunk(content[s.file_path], content[t.file_path])
             /\ Len(content[s.file_path]) = Len(content[t.file_path]))
            => <<s.file_path, t.file_path>> \in Range(duplicates)

\* a quick-mode run that paired two files of one size that differ after the chunk
C7_Witness ==
    /\ config.hashing_mode = "quick"
    /\ \E i \in DOMAIN duplicates :
          /\ AlikeUpToChunk(content[duplicates[i][1]], content[duplicates[i][2]])
          /\ Len(content[duplicates[i][1]]) = Len(content[duplicates[i][2]])

StoredPaths == {r.file_path : r \in table}

SourceRecordPaths == {hashed_source_files[i][1] : i \in DOMAIN hashed_source_files}

TargetRecordPaths == {hashed_target_files[i][1] : i \in DOMAIN hashed_target_files}

\* C10 as first stated: no path that the source scan returned and that is in the
\* catalog is ever removed.
C10_NoScannedSourcePathRemoved ==
    \A i \in DOMAIN resolved :
        resolved[i].removed =>
            ~(/\ resolved[i].target_path \in Range(source_files)
              /\ resolved[i].target_path \in StoredPaths)

\* C10 amended: no path for which the source pass made a record is ever handed to
\* os.remove: such a path is stored source-tagged, also when the target pass made a
\* record for it too, and every path handed to os.remove is that of a target-tagged
\* row.
C10_NoSourceRecordPathRemoved ==
    /\ Queried =>
          \A p \in SourceRecordPaths : p \in StoredPaths /\ RowOf(table, p).source = 1
    /\ \A i \in DOMAIN resolved :
          resolved[i].attempted =>
              /\ resolved[i].target_path \notin SourceRecordPaths
              /\ resolved[i].target_path \in StoredPaths
              /\ RowOf(table, resolved[i].target_path).source = 0

\* overlapping roots: a path with a record from both passes stayed, and a path
\* that both scans returned was removed
C10_Witness ==
    /\ SourceRecordPaths \cap TargetRecordPaths # {}
    /\ \E i \in DOMAIN resolved :
          /\ resolved[i].removed
          /\ resolved[i].target_path \in Range(source_files)

====
